---- MODULE Spec2Model ----
(***************************************************************************)
(* The WhatsApp webhook bridge of src/main.py: the SQLite store            *)
(* (chat_history, pending_msgs), the per-user debounce tasks               *)
(* (DEBOUNCE_TASKS, debounce_fire, schedule_debounce) and the webhook that *)
(* feeds them.                                                             *)
(*                                                                         *)
(* Scheduling is that of one asyncio event loop: the code between two      *)
(* awaits of a coroutine is one atomic step; a task that was created or    *)
(* asked to cancel is on the loop's ready queue and runs before any timer  *)
(* that still has time to go, so time (Tick) advances only when no such    *)
(* step is waiting.  task.cancel() throws CancelledError into the task at  *)
(* the await it is suspended in, whichever await that is.                  *)
(***************************************************************************)
EXTENDS Integers, Sequences, FiniteSets, TLC

VARIABLES
    now,             \* the clock, in seconds: time.time() and the loop's time
    env,             \* the configuration read from the environment at start
    chat_history,    \* table chat_history, in rowid order
    pending_msgs,    \* table pending_msgs, in rowid order
    tasks,           \* every asyncio.Task made by schedule_debounce, by creation
    DEBOUNCE_TASKS,  \* user_id -> index of a task in tasks, 0 when the key is absent
    PHONE_ID_CACHE,  \* user_id -> phone_number_id, None when the key is absent
    ret              \* the last call made on the store by StoreSpec and what it returned

vars == <<now, env, chat_history, pending_msgs, tasks, DEBOUNCE_TASKS,
          PHONE_ID_CACHE, ret>>

-----------------------------------------------------------------------------
(* Bounds of the model *)

MaxMsgs == 2        \* messages the webhook accepts in a run of Spec
MaxTime == 75       \* the clock's last value in a run of Spec or MediaSpec
MaxMedia == 2       \* messages the webhook accepts in a run of MediaSpec
MaxRows == 3        \* rows of chat_history in a run of StoreSpec
MaxTurnsArg == 2    \* the largest max_turns StoreSpec passes
MaxFireRows == 2    \* rows of pending_msgs at the start of a run of FireSpec
MaxLiveMsgs == 2    \* messages the webhook accepts in a run of LiveSpec

(* Program constants *)

DEBOUNCE_SECONDS == 30
DEFAULT_MAX_CHARS == 6000
DEFAULT_MAX_TURNS == 10

None == "None"
Users == {"u1", "u2"}
PhoneIds == {"p1"}

SYSTEM_PROMPT == "Te llamas Sofia Soler, asesora inmobiliaria costarricense ..."
FALLBACK ==
    "Disculpe, tuve un inconveniente tecnico al contestar. Podria confirmarme su intencion (compra o alquiler) y la zona de interes?"

\* Time is observed every half window, and at every timer expiry.
TickStep == DEBOUNCE_SECONDS \div 2

-----------------------------------------------------------------------------
(* Python helpers *)

Min(a, b) == IF a <= b THEN a ELSE b

RECURSIVE lstrip(_)
lstrip(s) ==
    IF Len(s) > 0 /\ SubSeq(s, 1, 1) = " " THEN lstrip(SubSeq(s, 2, Len(s))) ELSE s

RECURSIVE rstrip(_)
rstrip(s) ==
    IF Len(s) > 0 /\ SubSeq(s, Len(s), Len(s)) = " "
    THEN rstrip(SubSeq(s, 1, Len(s) - 1))
    ELSE s

\* str.strip()
strip(s) == rstrip(lstrip(s))

\* list(reversed(s))
RECURSIVE Reversed(_)
Reversed(s) == IF s = <<>> THEN <<>> ELSE Append(Reversed(Tail(s)), Head(s))

\* rows[-k:]; Python reads -0 as 0, so k = 0 keeps every row
LastRows(rows, k) ==
    IF k = 0 \/ k >= Len(rows) THEN rows
    ELSE SubSeq(rows, Len(rows) - k + 1, Len(rows))

\* ORDER BY ts ASC: rows of equal ts stay in rowid order
RECURSIVE InsertByTs(_, _)
InsertByTs(sorted, row) ==
    IF sorted = <<>> THEN <<row>>
    ELSE IF sorted[Len(sorted)].ts <= row.ts THEN Append(sorted, row)
    ELSE Append(InsertByTs(SubSeq(sorted, 1, Len(sorted) - 1), row), sorted[Len(sorted)])

RECURSIVE OrderByTs(_)
OrderByTs(rows) ==
    IF rows = <<>> THEN <<>>
    ELSE InsertByTs(OrderByTs(SubSeq(rows, 1, Len(rows) - 1)), rows[Len(rows)])

-----------------------------------------------------------------------------
(* The store.  Every function opens the database, runs its statements and  *)
(* commits; db is the record of the two tables.                            *)

\* WHERE user_id=?
OfUser(rows, user_id) ==
    LET Test(row) == row.user_id = user_id IN SelectSeq(rows, Test)

save_msg_front(db, user_id, role, content, ts) ==
    [db EXCEPT !.chat_history =
        <<[user_id |-> user_id, role |-> role, content |-> content, ts |-> ts]>> \o @]

\* INSERT INTO chat_history
save_msg(db, user_id, role, content, ts) ==
    [db EXCEPT !.chat_history =
        Append(@, [user_id |-> user_id, role |-> role, content |-> content, ts |-> ts])]

\* The loop of get_recent_history: rows taken newest first until the next one would
\* pass max_chars, the first one always taken.
RECURSIVE KeepRows(_, _, _, _)
KeepRows(rev, total, kept, max_chars) ==
    IF rev = <<>> THEN kept
    ELSE IF total + Len(Head(rev).content) > max_chars /\ kept # <<>> THEN kept
    ELSE KeepRows(Tail(rev), total + Len(Head(rev).content),
                  Append(kept, [role |-> Head(rev).role, content |-> Head(rev).content]),
                  max_chars)

get_recent_history_unreversed(db, user_id, max_chars, max_turns) ==
    LET rows == LastRows(OrderByTs(OfUser(db.chat_history, user_id)), max_turns * 2)
    IN  KeepRows(Reversed(rows), 0, <<>>, max_chars)

get_recent_history_wide(db, user_id, max_chars, max_turns) ==
    LET rows == LastRows(OrderByTs(OfUser(db.chat_history, user_id)), max_turns * 3)
    IN  Reversed(KeepRows(Reversed(rows), 0, <<>>, max_chars))

get_recent_history(db, user_id, max_chars, max_turns) ==
    LET rows == LastRows(OrderByTs(OfUser(db.chat_history, user_id)), max_turns * 2)
    IN  Reversed(KeepRows(Reversed(rows), 0, <<>>, max_chars))

enqueue_pending_restamped(db, user_id, content, ts) ==
    [chat_history |->
        Append(db.chat_history,
               [user_id |-> user_id, role |-> "user", content |-> content, ts |-> ts]),
     pending_msgs |->
        Append(db.pending_msgs,
               [user_id |-> user_id, content |-> content, ts |-> ts + 1, processed |-> 0])]

\* The two INSERTs of enqueue_pending, one transaction
enqueue_pending(db, user_id, content, ts) ==
    [chat_history |->
        Append(db.chat_history,
               [user_id |-> user_id, role |-> "user", content |-> content, ts |-> ts]),
     pending_msgs |->
        Append(db.pending_msgs,
               [user_id |-> user_id, content |-> content, ts |-> ts, processed |-> 0])]

fetch_unprocessed_newest(db, user_id) ==
    LET Test(row) == row.user_id = user_id /\ row.processed = 0
        rows == OrderByTs(SelectSeq(db.pending_msgs, Test))
    IN  IF rows = <<>> THEN <<>>
        ELSE <<<<rows[Len(rows)].content, rows[Len(rows)].ts>>>>

\* SELECT content, ts ... WHERE user_id=? AND processed=0 ORDER BY ts ASC
fetch_unprocessed(db, user_id) ==
    LET Test(row) == row.user_id = user_id /\ row.processed = 0
        rows == OrderByTs(SelectSeq(db.pending_msgs, Test))
    IN  [i \in 1..Len(rows) |-> <<rows[i].content, rows[i].ts>>]

mark_processed_toggle(db, user_id) ==
    LET pend == db.pending_msgs
    IN  [db EXCEPT !.pending_msgs =
            [i \in 1..Len(pend) |->
                IF pend[i].user_id = user_id
                THEN [pend[i] EXCEPT !.processed = 1 - pend[i].processed]
                ELSE pend[i]]]

mark_processed_latest(db, user_id) ==
    LET pend == db.pending_msgs
        Open == {i \in 1..Len(pend) : pend[i].user_id = user_id /\ pend[i].processed = 0}
    IN  [db EXCEPT !.pending_msgs =
            [i \in 1..Len(pend) |->
                IF i \in Open /\ \A j \in Open : j <= i
                THEN [pend[i] EXCEPT !.processed = 1]
                ELSE pend[i]]]

mark_processed_everyone(db, user_id) ==
    LET pend == db.pending_msgs
    IN  [db EXCEPT !.pending_msgs =
            [i \in 1..Len(pend) |->
                IF pend[i].processed = 0
                THEN [pend[i] EXCEPT !.processed = 1]
                ELSE pend[i]]]

\* UPDATE pending_msgs SET processed=1 WHERE user_id=? AND processed=0
mark_processed(db, user_id) ==
    LET pend == db.pending_msgs
    IN  [db EXCEPT !.pending_msgs =
            [i \in 1..Len(pend) |->
                IF pend[i].user_id = user_id /\ pend[i].processed = 0
                THEN [pend[i] EXCEPT !.processed = 1]
                ELSE pend[i]]]

-----------------------------------------------------------------------------
(* The external services, by what they answer *)

\* client.post of call_openai_chat: it raises, or answers a status and a content
ChatResponses ==
    { [raised |-> TRUE,  status_code |-> 0,   content |-> ""],
      [raised |-> FALSE, status_code |-> 500, content |-> "error"],
      [raised |-> FALSE, status_code |-> 200, content |-> " "],
      [raised |-> FALSE, status_code |-> 200, content |-> "Con gusto. "] }

\* call_openai_chat once the key is known to be set: "" on every failure
call_openai_chat(response) ==
    IF response.raised THEN ""
    ELSE IF response.status_code >= 400 THEN ""
    ELSE strip(response.content)

\* client.post of send_whatsapp_text: it raises, or answers a status
SendResponses ==
    { [raised |-> TRUE,  status_code |-> 0],
      [raised |-> FALSE, status_code |-> 400],
      [raised |-> FALSE, status_code |-> 200] }

\* send_whatsapp_text once the token, the route and the recipient are known to be
\* set: it returns None whatever happens; the message is out when the request was
\* answered without an error status.
send_whatsapp_text(response) ==
    IF response.raised THEN "failed"
    ELSE IF response.status_code >= 400 THEN "failed"
    ELSE "ok"

-----------------------------------------------------------------------------
(* The debounce tasks.  W is the state a step works on: the two tables and  *)
(* the two dicts, with the tasks.                                           *)

World ==
    [chat_history |-> chat_history, pending_msgs |-> pending_msgs, tasks |-> tasks,
     DEBOUNCE_TASKS |-> DEBOUNCE_TASKS, PHONE_ID_CACHE |-> PHONE_ID_CACHE]

Db(W) == [chat_history |-> W.chat_history, pending_msgs |-> W.pending_msgs]

WithDb(W, db) ==
    [W EXCEPT !.chat_history = db.chat_history, !.pending_msgs = db.pending_msgs]

\* asyncio.create_task(debounce_fire(user_id)): the task is made, not yet run
NewTask(user_id) ==
    [user_id     |-> user_id,
     st          |-> "created",  \* created, sleep, chat, send: where it is suspended; done
     must_cancel |-> FALSE,      \* cancel() was called and CancelledError is on its way
     cancelledIn |-> "none",     \* where the task was when cancel() was called
     wakeAt      |-> 0,          \* when its asyncio.sleep ends
     fetched     |-> FALSE,      \* it has called fetch_unprocessed
     fetchedAt   |-> 0,
     pending     |-> <<>>,       \* what fetch_unprocessed returned
     messages    |-> <<>>,       \* the request given to call_openai_chat
     chat        |-> "none",     \* ok, failed: whether call_openai_chat gave a reply
     reply       |-> "",         \* the reply once save_msg has stored it
     sendTo      |-> None,       \* the phone_number_id given to send_whatsapp_text
     sendText    |-> "",         \* the text given to send_whatsapp_text
     delivered   |-> "none",     \* ok, failed: what became of the delivery request
     marked      |-> FALSE,      \* it has called mark_processed
     result      |-> "none"]     \* returned, cancelled (CancelledError), error (swallowed)

Done(t) == t.st = "done"

schedule_debounce_nocancel(W, user_id, phone_number_id) ==
    LET cache == IF phone_number_id # None
                 THEN [W.PHONE_ID_CACHE EXCEPT ![user_id] = phone_number_id]
                 ELSE W.PHONE_ID_CACHE
        made == Append(W.tasks, NewTask(user_id))
    IN  [W EXCEPT !.PHONE_ID_CACHE = cache,
                  !.tasks = made,
                  !.DEBOUNCE_TASKS[user_id] = Len(made)]

schedule_debounce_unrecorded(W, user_id, phone_number_id) ==
    LET cache == IF phone_number_id # None
                 THEN [W.PHONE_ID_CACHE EXCEPT ![user_id] = phone_number_id]
                 ELSE W.PHONE_ID_CACHE
        old == W.DEBOUNCE_TASKS[user_id]
        cancelled ==
            IF old # 0 /\ ~Done(W.tasks[old])
            THEN [W.tasks EXCEPT ![old].must_cancel = TRUE]
            ELSE W.tasks
    IN  [W EXCEPT !.PHONE_ID_CACHE = cache,
                  !.tasks = Append(cancelled, NewTask(user_id))]

\* if phone_number_id: PHONE_ID_CACHE[...] = ...; cancel the old task when it is not
\* done; create the new task and record it
schedule_debounce(W, user_id, phone_number_id) ==
    LET cache == IF phone_number_id # None
                 THEN [W.PHONE_ID_CACHE EXCEPT ![user_id] = phone_number_id]
                 ELSE W.PHONE_ID_CACHE
        old == W.DEBOUNCE_TASKS[user_id]
        cancelled ==
            IF old # 0 /\ ~Done(W.tasks[old])
            THEN [W.tasks EXCEPT ![old].must_cancel = TRUE,
                                 ![old].cancelledIn =
                                     IF W.tasks[old].must_cancel
                                     THEN W.tasks[old].cancelledIn ELSE W.tasks[old].st]
            ELSE W.tasks
        made == Append(cancelled, NewTask(user_id))
    IN  [W EXCEPT !.PHONE_ID_CACHE = cache,
                  !.tasks = made,
                  !.DEBOUNCE_TASKS[user_id] = Len(made)]

debounce_finally_marks(W, k, result) ==
    LET user_id == W.tasks[k].user_id
        t == W.DEBOUNCE_TASKS[user_id]
        popped == IF t # 0 /\ Done(W.tasks[t])
                  THEN [W.DEBOUNCE_TASKS EXCEPT ![user_id] = 0]
                  ELSE W.DEBOUNCE_TASKS
    IN  [W EXCEPT !.DEBOUNCE_TASKS = popped,
                  !.pending_msgs = mark_processed(Db(W), user_id).pending_msgs,
                  !.tasks[k].st = "done",
                  !.tasks[k].result = result]

\* The finally block of debounce_fire, run by task k, which is not done while it
\* runs it; then the coroutine ends with the given result.
debounce_finally(W, k, result) ==
    LET user_id == W.tasks[k].user_id
        t == W.DEBOUNCE_TASKS[user_id]
        popped == IF t # 0 /\ Done(W.tasks[t])
                  THEN [W.DEBOUNCE_TASKS EXCEPT ![user_id] = 0]
                  ELSE W.DEBOUNCE_TASKS
    IN  [W EXCEPT !.DEBOUNCE_TASKS = popped,
                  !.tasks[k].st = "done",
                  !.tasks[k].result = result]

debounce_mark_delivered(W, k) ==
    LET user_id == W.tasks[k].user_id
        W1 == WithDb(W, mark_processed(Db(W), user_id))
    IN  IF W.tasks[k].delivered = "ok"
        THEN debounce_finally([W1 EXCEPT !.tasks[k].marked = TRUE], k, "returned")
        ELSE debounce_finally(W, k, "returned")

\* From the return of send_whatsapp_text (or the skipped send) to the end
debounce_mark(W, k) ==
    LET user_id == W.tasks[k].user_id
        W1 == WithDb(W, mark_processed(Db(W), user_id))
    IN  debounce_finally([W1 EXCEPT !.tasks[k].marked = TRUE], k, "returned")

debounce_reply_abort(W, k, content, db_ok, waba_token, ts) ==
    LET user_id == W.tasks[k].user_id
        W0 == [W EXCEPT !.tasks[k].chat = IF content = "" THEN "failed" ELSE "ok"]
        W1 == [WithDb(W0, save_msg(Db(W0), user_id, "assistant", content, ts))
                  EXCEPT !.tasks[k].reply = content]
        phone_number_id == W.PHONE_ID_CACHE[user_id]
        W2 == [W1 EXCEPT !.tasks[k].sendTo = phone_number_id,
                         !.tasks[k].sendText = content]
    IN  IF content = "" THEN debounce_finally(W0, k, "returned")
        ELSE IF ~db_ok THEN debounce_finally(W0, k, "error")
        ELSE IF phone_number_id = None THEN debounce_mark(W1, k)
        ELSE IF ~waba_token THEN debounce_mark(W2, k)
        ELSE [W2 EXCEPT !.tasks[k].st = "send"]

\* From the return of call_openai_chat to the next await, or to the end. db_ok says
\* whether save_msg commits or raises.
debounce_reply(W, k, content, db_ok, waba_token, ts) ==
    LET user_id == W.tasks[k].user_id
        reply == IF content = "" THEN FALLBACK ELSE content
        W0 == [W EXCEPT !.tasks[k].chat = IF content = "" THEN "failed" ELSE "ok"]
        W1 == [WithDb(W0, save_msg(Db(W0), user_id, "assistant", reply, ts))
                  EXCEPT !.tasks[k].reply = reply]
        phone_number_id == W.PHONE_ID_CACHE[user_id]
        W2 == [W1 EXCEPT !.tasks[k].sendTo = phone_number_id,
                         !.tasks[k].sendText = reply]
    IN  IF ~db_ok THEN debounce_finally(W0, k, "error")
        ELSE IF phone_number_id = None THEN debounce_mark(W1, k)
        ELSE IF ~waba_token THEN debounce_mark(W2, k)
        ELSE [W2 EXCEPT !.tasks[k].st = "send"]

\* "\n".join(f"- {c}" for c, _ in pending)
RECURSIVE Joined(_)
Joined(pending) ==
    IF pending = <<>> THEN ""
    ELSE IF Len(pending) = 1 THEN "- " \o pending[1][1]
    ELSE "- " \o pending[1][1] \o "\n" \o Joined(Tail(pending))

BuildMessages(history, pending) ==
    <<[role |-> "system", content |-> SYSTEM_PROMPT]>> \o history \o
    <<[role |-> "user",
       content |-> "Integre y responda en UN solo mensaje considerando estos mensajes recientes:\n"
                   \o Joined(pending)]>>

debounce_wake_unguarded(W, k, db_ok, openai_api_key, waba_token, ts) ==
    LET user_id == W.tasks[k].user_id
        pending == fetch_unprocessed(Db(W), user_id)
        history == get_recent_history(Db(W), user_id, DEFAULT_MAX_CHARS, DEFAULT_MAX_TURNS)
        W1 == [W EXCEPT !.tasks[k].fetched = TRUE, !.tasks[k].fetchedAt = ts,
                        !.tasks[k].pending = pending]
        W2 == [W1 EXCEPT !.tasks[k].messages = BuildMessages(history, pending),
                         !.tasks[k].st = "chat"]
    IN  IF ~openai_api_key THEN debounce_reply(W2, k, "", db_ok, waba_token, ts)
        ELSE W2

\* From the end of the sleep to the next await, or to the end
debounce_wake(W, k, db_ok, openai_api_key, waba_token, ts) ==
    LET user_id == W.tasks[k].user_id
        pending == fetch_unprocessed(Db(W), user_id)
        history == get_recent_history(Db(W), user_id, DEFAULT_MAX_CHARS, DEFAULT_MAX_TURNS)
        W1 == [W EXCEPT !.tasks[k].fetched = TRUE, !.tasks[k].fetchedAt = ts,
                        !.tasks[k].pending = pending]
        W2 == [W1 EXCEPT !.tasks[k].messages = BuildMessages(history, pending),
                         !.tasks[k].st = "chat"]
    IN  IF pending = <<>> THEN debounce_finally(W1, k, "returned")
        ELSE IF ~openai_api_key THEN debounce_reply(W2, k, "", db_ok, waba_token, ts)
        ELSE W2

\* CancelledError reaches task k. A task that never ran ends without running any of
\* debounce_fire; a suspended one runs except CancelledError: raise, then finally.
debounce_cancelled(W, k) ==
    IF W.tasks[k].st = "created"
    THEN [W EXCEPT !.tasks[k].st = "done", !.tasks[k].result = "cancelled",
                   !.tasks[k].must_cancel = FALSE]
    ELSE debounce_finally([W EXCEPT !.tasks[k].must_cancel = FALSE], k, "cancelled")

-----------------------------------------------------------------------------
(* The inbound messages *)

Bodies == {"hola", "  "}

\* What the media helpers answer: wa_get_media_url, wa_download_media, and the
\* transcription or description; None and "" are their failures.
MediaResults ==
    { [media_url |-> None,  data |-> None,    text |-> ""],
      [media_url |-> "url", data |-> None,    text |-> ""],
      [media_url |-> "url", data |-> "bytes", text |-> ""],
      [media_url |-> "url", data |-> "bytes", text |-> "texto"] }

MediaContent_unwrapped(type, r) ==
    LET data == IF r.media_url # None THEN r.data ELSE None
        text == IF data # None THEN r.text ELSE ""
    IN  IF type = "audio"
        THEN IF text # "" THEN text
             ELSE "[Audio recibido]: (no se pudo transcribir)"
        ELSE IF text # "" THEN text
             ELSE "[Imagen recibida]: (no se pudo analizar)"

\* The text the audio and image branches of webhook() enqueue
MediaContent(type, r) ==
    LET data == IF r.media_url # None THEN r.data ELSE None
        text == IF data # None THEN r.text ELSE ""
    IN  IF type = "audio"
        THEN IF text # "" THEN "[Audio transcrito]: " \o text
             ELSE "[Audio recibido]: (no se pudo transcribir)"
        ELSE IF text # "" THEN "[Imagen analizada]: " \o text
             ELSE "[Imagen recibida]: (no se pudo analizar)"

\* enqueue_pending(user_id, content); await schedule_debounce(user_id, phone_number_id):
\* schedule_debounce awaits nothing, so the two run as one step.
Accept(W, user_id, content, phone_number_id, ts) ==
    schedule_debounce(WithDb(W, enqueue_pending(Db(W), user_id, content, ts)),
                      user_id, phone_number_id)

Commit(W) ==
    /\ chat_history' = W.chat_history
    /\ pending_msgs' = W.pending_msgs
    /\ tasks' = W.tasks
    /\ DEBOUNCE_TASKS' = W.DEBOUNCE_TASKS
    /\ PHONE_ID_CACHE' = W.PHONE_ID_CACHE

-----------------------------------------------------------------------------
(* Actions *)

\* webhook(), one message of type text
WebhookText(user_id, body, phone_number_id, limit) ==
    /\ Len(tasks) < limit
    /\ IF strip(body) # ""
       THEN Commit(Accept(World, user_id, body, phone_number_id, now))
       ELSE Commit(World)
    /\ UNCHANGED <<now, env, ret>>

\* webhook(), one message of type audio or image with a media id. Without
\* WABA_TOKEN the lookup and the download answer None, without OPENAI_API_KEY the
\* transcription and the description answer "".
WebhookMedia(user_id, type, r, phone_number_id, limit) ==
    /\ Len(tasks) < limit
    /\ r.media_url # None => env.WABA_TOKEN
    /\ r.text # "" => env.OPENAI_API_KEY
    /\ Commit(Accept(World, user_id, MediaContent(type, r), phone_number_id, now))
    /\ UNCHANGED <<now, env, ret>>

\* The loop runs a task for the first time: it reaches asyncio.sleep
TaskStart(k) ==
    /\ tasks[k].st = "created"
    /\ ~tasks[k].must_cancel
    /\ tasks' = [tasks EXCEPT ![k].st = "sleep", ![k].wakeAt = now + DEBOUNCE_SECONDS]
    /\ UNCHANGED <<now, env, chat_history, pending_msgs, DEBOUNCE_TASKS,
                   PHONE_ID_CACHE, ret>>

\* The loop delivers CancelledError to a task that was asked to cancel
TaskCancelled(k) ==
    /\ ~Done(tasks[k])
    /\ tasks[k].must_cancel
    /\ Commit(debounce_cancelled(World, k))
    /\ UNCHANGED <<now, env, ret>>

\* The sleep of task k ends
Wake(k, db_ok) ==
    /\ tasks[k].st = "sleep"
    /\ ~tasks[k].must_cancel
    /\ tasks[k].wakeAt <= now
    /\ Commit(debounce_wake(World, k, db_ok, env.OPENAI_API_KEY, env.WABA_TOKEN, now))
    /\ UNCHANGED <<now, env, ret>>

\* call_openai_chat returns to task k
ChatReturns(k, response, db_ok) ==
    /\ tasks[k].st = "chat"
    /\ ~tasks[k].must_cancel
    /\ Commit(debounce_reply(World, k, call_openai_chat(response), db_ok,
                             env.WABA_TOKEN, now))
    /\ UNCHANGED <<now, env, ret>>

\* send_whatsapp_text returns to task k, whatever the request's fate
SendReturns(k, response) ==
    /\ tasks[k].st = "send"
    /\ ~tasks[k].must_cancel
    /\ Commit(debounce_mark(
              [World EXCEPT !.tasks[k].delivered = send_whatsapp_text(response)], k))
    /\ UNCHANGED <<now, env, ret>>

\* A step of the loop's ready queue is waiting: time does not pass before it runs
Ready ==
    \E k \in 1..Len(tasks) :
        \/ tasks[k].st = "created"
        \/ ~Done(tasks[k]) /\ tasks[k].must_cancel
        \/ tasks[k].st = "sleep" /\ tasks[k].wakeAt <= now

NextWake ==
    LET S == {tasks[k].wakeAt : k \in {j \in 1..Len(tasks) : tasks[j].st = "sleep"}}
    IN  IF S = {} THEN now + TickStep
        ELSE CHOOSE w \in S : \A v \in S : w <= v

\* No task is left to run and the last message's window is over: nothing more
\* happens until a message comes, and the clock is not followed further.
Quiet ==
    /\ \A k \in 1..Len(tasks) : Done(tasks[k])
    /\ pending_msgs = <<>> \/ now > pending_msgs[Len(pending_msgs)].ts + DEBOUNCE_SECONDS

Tick ==
    /\ ~Ready
    /\ ~Quiet
    /\ now < MaxTime
    /\ now' = Min(Min(now + TickStep, NextWake), MaxTime)
    /\ UNCHANGED <<env, chat_history, pending_msgs, tasks, DEBOUNCE_TASKS,
                   PHONE_ID_CACHE, ret>>

-----------------------------------------------------------------------------
(* The program *)

NoCall == [op |-> "none", user_id |-> None, max_chars |-> 0, max_turns |-> 0,
           value |-> <<>>]

Init ==
    /\ now = 0
    /\ env \in [OPENAI_API_KEY : BOOLEAN, WABA_TOKEN : BOOLEAN]
    /\ chat_history = <<>>
    /\ pending_msgs = <<>>
    /\ tasks = <<>>
    /\ DEBOUNCE_TASKS = [u \in Users |-> 0]
    /\ PHONE_ID_CACHE = [u \in Users |-> None]
    /\ ret = NoCall

TaskNext ==
    \/ \E k \in 1..Len(tasks) : TaskStart(k)
    \/ \E k \in 1..Len(tasks) : TaskCancelled(k)
    \/ \E k \in 1..Len(tasks), ok \in BOOLEAN : Wake(k, ok)
    \/ \E k \in 1..Len(tasks), r \in ChatResponses, ok \in BOOLEAN : ChatReturns(k, r, ok)
    \/ \E k \in 1..Len(tasks), r \in SendResponses : SendReturns(k, r)
    \/ Tick

\* The program fed text messages
Next ==
    \/ \E u \in Users, b \in Bodies, p \in PhoneIds \cup {None} :
          WebhookText(u, b, p, MaxMsgs)
    \/ TaskNext

Spec == Init /\ [][Next]_vars

\* The program fed text, audio and image messages by one sender
MediaUsers == {"u1"}

MediaNext ==
    \/ \E u \in MediaUsers, b \in Bodies, p \in PhoneIds \cup {None} :
          WebhookText(u, b, p, MaxMedia)
    \/ \E u \in MediaUsers, ty \in {"audio", "image"}, r \in MediaResults,
          p \in PhoneIds \cup {None} : WebhookMedia(u, ty, r, p, MaxMedia)
    \/ TaskNext

MediaSpec == Init /\ [][MediaNext]_vars

-----------------------------------------------------------------------------
(* The store's functions called one at a time, with any arguments *)

MaxCharsArgs == {0, 4, 13, 14, DEFAULT_MAX_CHARS}
MaxTurnsArgs == 1..MaxTurnsArg
Replies == {"Con gusto."}

Called(op, user_id, max_chars, max_turns, value) ==
    ret' = [op |-> op, user_id |-> user_id, max_chars |-> max_chars,
            max_turns |-> max_turns, value |-> value]

SetDb(db) ==
    /\ chat_history' = db.chat_history
    /\ pending_msgs' = db.pending_msgs

StoreEnqueue(user_id, content) ==
    /\ Len(chat_history) < MaxRows
    /\ SetDb(enqueue_pending(Db(World), user_id, content, now))
    /\ Called("enqueue_pending", user_id, 0, 0, <<>>)
    /\ UNCHANGED <<now, env, tasks, DEBOUNCE_TASKS, PHONE_ID_CACHE>>

\* save_msg is called for the reply to a user who has sent something
StoreSave(user_id, content) ==
    /\ Len(chat_history) < MaxRows
    /\ OfUser(pending_msgs, user_id) # <<>>
    /\ SetDb(save_msg(Db(World), user_id, "assistant", content, now))
    /\ Called("save_msg", user_id, 0, 0, <<>>)
    /\ UNCHANGED <<now, env, tasks, DEBOUNCE_TASKS, PHONE_ID_CACHE>>

StoreFetch(user_id) ==
    /\ Called("fetch_unprocessed", user_id, 0, 0, fetch_unprocessed(Db(World), user_id))
    /\ UNCHANGED <<now, env, chat_history, pending_msgs, tasks, DEBOUNCE_TASKS,
                   PHONE_ID_CACHE>>

StoreMark(user_id) ==
    /\ SetDb(mark_processed(Db(World), user_id))
    /\ Called("mark_processed", user_id, 0, 0, <<>>)
    /\ UNCHANGED <<now, env, tasks, DEBOUNCE_TASKS, PHONE_ID_CACHE>>

StoreHistory(user_id, max_chars, max_turns) ==
    /\ Called("get_recent_history", user_id, max_chars, max_turns,
              get_recent_history(Db(World), user_id, max_chars, max_turns))
    /\ UNCHANGED <<now, env, chat_history, pending_msgs, tasks, DEBOUNCE_TASKS,
                   PHONE_ID_CACHE>>

\* A second passes, once
StoreTick ==
    /\ now = 0
    /\ now' = now + 1
    /\ UNCHANGED <<env, chat_history, pending_msgs, tasks, DEBOUNCE_TASKS,
                   PHONE_ID_CACHE, ret>>

StoreNext ==
    \/ \E u \in Users, c \in {b \in Bodies : strip(b) # ""} : StoreEnqueue(u, c)
    \/ \E u \in Users, c \in Replies : StoreSave(u, c)
    \/ \E u \in Users : StoreFetch(u)
    \/ \E u \in Users : StoreMark(u)
    \/ \E u \in Users, mc \in MaxCharsArgs, mt \in MaxTurnsArgs : StoreHistory(u, mc, mt)
    \/ StoreTick

StoreInit == Init /\ env = [OPENAI_API_KEY |-> TRUE, WABA_TOKEN |-> TRUE]

StoreSpec == StoreInit /\ [][StoreNext]_vars

-----------------------------------------------------------------------------
(* The program while it keeps running, external calls return and the store  *)
(* does not fail: the loop runs every ready task, time passes, and the      *)
(* senders stop after finitely many messages.                               *)

\* A message arrives while the clock still covers the window of its timer
LiveWebhookText(user_id, body, phone_number_id) ==
    /\ now + DEBOUNCE_SECONDS <= MaxTime
    /\ WebhookText(user_id, body, phone_number_id, MaxLiveMsgs)

\* The steps of the tasks, with a store that commits
LiveTaskNext ==
    \/ \E k \in 1..Len(tasks) : TaskStart(k)
    \/ \E k \in 1..Len(tasks) : TaskCancelled(k)
    \/ \E k \in 1..Len(tasks) : Wake(k, TRUE)
    \/ \E k \in 1..Len(tasks), r \in ChatResponses : ChatReturns(k, r, TRUE)
    \/ \E k \in 1..Len(tasks), r \in SendResponses : SendReturns(k, r)

LiveNext ==
    \/ \E u \in Users, b \in Bodies, p \in PhoneIds \cup {None} :
          LiveWebhookText(u, b, p)
    \/ LiveTaskNext
    \/ Tick

\* A step of LiveTaskNext can be taken: some task was just created, was asked to
\* cancel, has slept its time, or waits for a call that returns. This is
\* ENABLED <<LiveTaskNext>>_vars, every such step changing the task it runs.
TaskStepReady ==
    \E k \in 1..Len(tasks) :
        \/ ~Done(tasks[k]) /\ tasks[k].must_cancel
        \/ tasks[k].st = "created"
        \/ tasks[k].st = "sleep" /\ tasks[k].wakeAt <= now
        \/ tasks[k].st \in {"chat", "send"}

\* WF_vars(LiveTaskNext), with ENABLED written as TaskStepReady: the loop does not
\* leave a ready task waiting for ever, and a call awaited returns.
WeakFairTaskSteps == []<>(~TaskStepReady) \/ []<><<LiveTaskNext>>_vars

LiveSpec == Init /\ [][LiveNext]_vars /\ WeakFairTaskSteps /\ WF_vars(Tick)

-----------------------------------------------------------------------------
(* debounce_fire run from the end of its sleep against any contents of the  *)
(* store: the database file outlives the process and is its input.         *)

FireRowSet == [user_id : Users, content : {"hola"}, ts : {0}, processed : {0, 1}]

\* The history that goes with the pending entries: the mirrored user turns, and a
\* reply for each user who has a processed entry
RECURSIVE FireHistory(_, _)
FireHistory(pend, answered) ==
    IF pend = <<>> THEN <<>>
    ELSE LET row == Head(pend)
             turn == [user_id |-> row.user_id, role |-> "user",
                      content |-> row.content, ts |-> row.ts]
             reply == [user_id |-> row.user_id, role |-> "assistant",
                       content |-> "Con gusto.", ts |-> row.ts]
         IN  IF row.processed = 1 /\ row.user_id \notin answered
             THEN <<turn, reply>> \o FireHistory(Tail(pend), answered \cup {row.user_id})
             ELSE <<turn>> \o FireHistory(Tail(pend), answered)

FireInit ==
    /\ now = DEBOUNCE_SECONDS
    /\ env \in [OPENAI_API_KEY : BOOLEAN, WABA_TOKEN : BOOLEAN]
    /\ pending_msgs \in UNION {[1..n -> FireRowSet] : n \in 0..MaxFireRows}
    /\ chat_history = FireHistory(pending_msgs, {})
    /\ \E u \in Users :
          /\ tasks = <<[NewTask(u) EXCEPT !.st = "sleep", !.wakeAt = DEBOUNCE_SECONDS]>>
          /\ DEBOUNCE_TASKS = [v \in Users |-> IF v = u THEN 1 ELSE 0]
          /\ PHONE_ID_CACHE \in {[v \in Users |-> None],
                                 [v \in Users |-> IF v = u THEN "p1" ELSE None]}
    /\ ret = NoCall

FireNext ==
    \/ \E k \in 1..Len(tasks), ok \in BOOLEAN : Wake(k, ok)
    \/ \E k \in 1..Len(tasks), r \in ChatResponses, ok \in BOOLEAN : ChatReturns(k, r, ok)
    \/ \E k \in 1..Len(tasks), r \in SendResponses : SendReturns(k, r)

FireSpec == FireInit /\ [][FireNext]_vars

-----------------------------------------------------------------------------
(* Properties of the store's functions, checked under StoreSpec *)

\* The turns of a user as they were stored, oldest first
TurnsOf(user_id) ==
    LET rows == OfUser(chat_history, user_id)
    IN  [i \in 1..Len(rows) |-> [role |-> rows[i].role, content |-> rows[i].content]]

RECURSIVE TotalChars(_)
TotalChars(turns) ==
    IF turns = <<>> THEN 0 ELSE Len(Head(turns).content) + TotalChars(Tail(turns))

HistoryReturned == ret.op = "get_recent_history"

\* C8 as stated: get_recent_history returns at most max_turns entries, user and
\* assistant turns counted together.
C8_AtMostMaxTurns ==
    HistoryReturned => Len(ret.value) <= ret.max_turns

\* C8 amended: get_recent_history returns at most 2 * max_turns entries, user and
\* assistant turns counted together (max_turns >= 1).
C8_AtMostTwiceMaxTurns ==
    HistoryReturned => Len(ret.value) <= 2 * ret.max_turns

\* The user has more turns than the limit lets through, and the limit is what cut
\* the result.
C8_Witness ==
    /\ HistoryReturned
    /\ Len(TurnsOf(ret.user_id)) > 2 * ret.max_turns
    /\ Len(ret.value) = 2 * ret.max_turns

\* C9: get_recent_history returns a run of the user's most recent turns, oldest
\* first, of total content length at most max_chars; except that it is never empty
\* when the user has a turn, and is the most recent turn alone when that turn is
\* longer than max_chars.
C9_RecentRunWithinBudget ==
    HistoryReturned =>
        LET all == TurnsOf(ret.user_id)
            n == Len(all)
            k == Len(ret.value)
        IN  /\ k <= n
            /\ ret.value = SubSeq(all, n - k + 1, n)
            /\ n > 0 => k >= 1
            /\ \/ TotalChars(ret.value) <= ret.max_chars
               \/ k = 1 /\ Len(all[n].content) > ret.max_chars
            /\ (n > 0 /\ Len(all[n].content) > ret.max_chars) => k = 1

\* The budget cut a longer history down to two turns or more.
C9_Witness ==
    /\ HistoryReturned
    /\ Len(ret.value) >= 2
    /\ Len(ret.value) < Len(TurnsOf(ret.user_id))
    /\ Len(ret.value) < 2 * ret.max_turns
    /\ ret.value[1] # ret.value[2]

\* The most recent turn alone is over the budget, and it is returned alone.
C9_WitnessOverBudget ==
    /\ HistoryReturned
    /\ Len(TurnsOf(ret.user_id)) >= 2
    /\ Len(ret.value) = 1
    /\ Len(ret.value[1].content) > ret.max_chars

\* C10: mark_processed is idempotent: right after mark_processed(user), a second
\* call for the same user leaves the store as it is.
C10_MarkIdempotent ==
    ret.op = "mark_processed" =>
        mark_processed(Db(World), ret.user_id) = Db(World)

\* mark_processed has just marked rows of the user, next to an unprocessed row of
\* another user.
C10_Witness ==
    /\ ret.op = "mark_processed"
    /\ \E i \in 1..Len(pending_msgs) :
          pending_msgs[i].user_id = ret.user_id /\ pending_msgs[i].processed = 1
    /\ \E i \in 1..Len(pending_msgs) :
          pending_msgs[i].user_id # ret.user_id /\ pending_msgs[i].processed = 0

-----------------------------------------------------------------------------
(* Properties of the debounce tasks, checked under Spec.  There the k-th    *)
(* accepted message made the k-th row of pending_msgs and the k-th task.    *)

TaskIds == 1..Len(tasks)
TasksOf(user_id) == {k \in TaskIds : tasks[k].user_id = user_id}

\* An Aggregation cycle in flight: the task is past its sleep, suspended in the
\* reasoning call or in the delivery call, and has not ended.
InFlight(t) == t.st \in {"chat", "send"}

\* Neither completed nor asked to cancel
Live(t) == ~Done(t) /\ ~t.must_cancel

\* The message that armed task k
MsgOf(k) == pending_msgs[k]

\* The next message of the same user came while the timer of message k was pending:
\* strictly inside its window, or at the window's end before the timer had fired
Superseded(k) ==
    \/ \E j \in TasksOf(tasks[k].user_id) :
          /\ j > k
          /\ MsgOf(j).ts < MsgOf(k).ts + DEBOUNCE_SECONDS
    \/ tasks[k].cancelledIn \in {"created", "sleep"}

\* The messages that end with message k, each but the last superseded
BurstOf(k) ==
    {j \in TasksOf(tasks[k].user_id) :
        /\ j <= k
        /\ \A i \in TasksOf(tasks[k].user_id) : (j <= i /\ i < k) => Superseded(i)}

\* The rows of the burst that ends with message k, as fetch_unprocessed returns them
RECURSIVE BurstRows(_, _)
BurstRows(k, j) ==
    IF j > k THEN <<>>
    ELSE (IF j \in BurstOf(k) THEN <<<<MsgOf(j).content, MsgOf(j).ts>>>> ELSE <<>>)
         \o BurstRows(k, j + 1)

IsSuffix(s, t) == Len(s) <= Len(t) /\ s = SubSeq(t, Len(t) - Len(s) + 1, Len(t))

\* C1: for every user at most one Aggregation cycle is in flight; a task cancelled
\* by schedule_debounce and the task that replaces it are never both past their
\* sleep.
C1_OneCycleInFlight ==
    \A u \in Users : Cardinality({k \in TasksOf(u) : InFlight(tasks[k])}) <= 1

\* A task was cancelled while its cycle was in flight, and its replacement's cycle
\* is in flight now.
C1_Witness ==
    \E j, k \in TaskIds :
        /\ j < k
        /\ tasks[j].user_id = tasks[k].user_id
        /\ tasks[j].cancelledIn \in {"chat", "send"}
        /\ Done(tasks[j])
        /\ InFlight(tasks[k])

\* C2: of a burst of messages of one user, each sent inside the window of the one
\* before, no superseded timer reaches fetch_unprocessed; the last timer fetches
\* when, and only when, a full window has passed since the last message, and its
\* request holds every message of the burst.
C2_BurstFiresOnce ==
    \A k \in TaskIds :
        /\ Superseded(k) => ~tasks[k].fetched
        /\ (tasks[k].st = "sleep" /\ ~tasks[k].must_cancel) =>
               now <= MsgOf(k).ts + DEBOUNCE_SECONDS
        /\ tasks[k].fetched =>
               /\ tasks[k].fetchedAt >= MsgOf(k).ts + DEBOUNCE_SECONDS
               /\ IsSuffix(BurstRows(k, 1), tasks[k].pending)
               /\ tasks[k].messages # <<>> =>
                      tasks[k].messages[Len(tasks[k].messages)].content =
                          "Integre y responda en UN solo mensaje considerando estos mensajes recientes:\n"
                          \o Joined(tasks[k].pending)

\* A burst of two messages has fired once, with both messages in the request.
C2_Witness ==
    \E k \in TaskIds :
        /\ tasks[k].fetched
        /\ Cardinality(BurstOf(k)) >= 2
        /\ Len(tasks[k].pending) >= 2
        /\ \A j \in BurstOf(k) \ {k} : Done(tasks[j]) /\ ~tasks[j].fetched

\* C3: for every user at most one debounce task is live (neither completed nor
\* asked to cancel), and it is the one DEBOUNCE_TASKS records: every task that
\* schedule_debounce replaced was done or was cancelled by it.
C3_OneLiveTimer ==
    \A u \in Users :
        /\ Cardinality({k \in TasksOf(u) : Live(tasks[k])}) <= 1
        /\ \A k \in TasksOf(u) : Live(tasks[k]) => DEBOUNCE_TASKS[u] = k

\* A replaced task has been asked to cancel and has not ended yet, next to the
\* live task that replaced it.
C3_Witness ==
    \E j, k \in TaskIds :
        /\ j < k
        /\ tasks[j].user_id = tasks[k].user_id
        /\ ~Done(tasks[j]) /\ tasks[j].must_cancel
        /\ Live(tasks[k])

\* C4 as stated: a cycle that has fetched entries is not aborted by a later
\* message: it ends having persisted its reply and called mark_processed (a cycle
\* ended by a storage error aside).
C4_InFlightCycleCompletes ==
    \A k \in TaskIds :
        (Done(tasks[k]) /\ tasks[k].pending # <<>> /\ tasks[k].result # "error") =>
            tasks[k].reply # "" /\ tasks[k].marked

\* The assistant turns stored for a user
RepliesTo(user_id) ==
    LET Test(row) == row.user_id = user_id /\ row.role = "assistant"
    IN  Len(SelectSeq(chat_history, Test))

\* The gap between message k and the user's message before it, -1 for the first
GapBefore(k) ==
    LET before == {j \in TasksOf(tasks[k].user_id) : j < k}
    IN  IF before = {} THEN -1
        ELSE MsgOf(k).ts - MsgOf(CHOOSE j \in before : \A i \in before : i <= j).ts

\* The groups of a user's messages: a message opens one when it is the first or
\* comes more than a window after the one before.
Groups(user_id) ==
    Cardinality({k \in TasksOf(user_id) :
                    GapBefore(k) = -1 \/ GapBefore(k) > DEBOUNCE_SECONDS})

\* C5 as stated: when every gap is either shorter or longer than the window, and
\* everything has run to its end without a storage error, each group of messages
\* has got exactly one assistant reply.
C5_OneReplyPerGroup ==
    \A u \in Users :
        ( /\ \A k \in TasksOf(u) :
                /\ Done(tasks[k])
                /\ tasks[k].result # "error"
                /\ GapBefore(k) # DEBOUNCE_SECONDS
          /\ TasksOf(u) # {} )
        => RepliesTo(u) = Groups(u)

\* The step in which task k calls mark_processed, its reply already stored
MarkStep(k) ==
    /\ ~tasks[k].marked
    /\ tasks'[k].marked
    /\ tasks'[k].reply # ""
    /\ \E i \in 1..Len(chat_history') :
          chat_history'[i] = [user_id |-> tasks[k].user_id, role |-> "assistant",
                              content |-> tasks'[k].reply, ts |-> chat_history'[i].ts]

\* C6: a pending entry is created unprocessed; its flag never goes back from 1 to
\* 0; it goes from 0 to 1 only in the mark_processed step of a cycle of its user
\* that has stored its reply; a cycle that ends cancelled or in an exception
\* changes no flag.
C6_ProcessedOnlyByCompletedCycle ==
    [][ /\ Len(pending_msgs') >= Len(pending_msgs)
        /\ \A i \in 1..Len(pending_msgs') :
              IF i > Len(pending_msgs)
              THEN pending_msgs'[i].processed = 0
              ELSE /\ pending_msgs'[i].processed >= pending_msgs[i].processed
                   /\ pending_msgs'[i].processed # pending_msgs[i].processed =>
                          \E k \in TasksOf(pending_msgs[i].user_id) : MarkStep(k)
        /\ \A k \in TaskIds :
              (tasks[k].result = "none" /\ tasks'[k].result \in {"cancelled", "error"}) =>
                  pending_msgs' = pending_msgs
      ]_vars

\* A cycle that had fetched was cancelled and left its entry unprocessed; a later
\* cycle then marked the entries.
C6_Witness ==
    \E j, k \in TaskIds :
        /\ tasks[j].fetched /\ tasks[j].pending # <<>>
        /\ tasks[j].result = "cancelled"
        /\ tasks[k].marked
        /\ \A i \in 1..Len(pending_msgs) :
              pending_msgs[i].user_id = tasks[k].user_id => pending_msgs[i].processed = 1

LastTaskOf(user_id) == CHOOSE k \in TasksOf(user_id) : \A j \in TasksOf(user_id) : j <= k

\* Every entry task k fetched is processed
BatchProcessed(k) ==
    \A n \in 1..Len(tasks[k].pending) :
        \E i \in 1..Len(pending_msgs) :
            /\ pending_msgs[i].user_id = tasks[k].user_id
            /\ <<pending_msgs[i].content, pending_msgs[i].ts>> = tasks[k].pending[n]
            /\ pending_msgs[i].processed = 1

\* C7: a cycle whose reasoning call failed, and that is neither cancelled nor ended
\* by a storage error, goes on: it stores the fallback text as the assistant turn,
\* gives the same text to the delivery call when the user's route is known, and
\* ends having marked the entries it fetched processed.
C7_FallbackOnReasoningFailure ==
    \A k \in TaskIds :
        ( /\ tasks[k].chat = "failed"
          /\ ~tasks[k].must_cancel
          /\ tasks[k].result \notin {"cancelled", "error"} )
        => /\ tasks[k].reply = FALLBACK
           /\ \E i \in 1..Len(chat_history) :
                 /\ chat_history[i].user_id = tasks[k].user_id
                 /\ chat_history[i].role = "assistant"
                 /\ chat_history[i].content = FALLBACK
           /\ tasks[k].st \in {"send", "done"}
           /\ tasks[k].st = "send" => tasks[k].sendText = FALLBACK
           /\ tasks[k].sendTo # None => tasks[k].sendText = FALLBACK
           /\ (k = LastTaskOf(tasks[k].user_id) /\ PHONE_ID_CACHE[tasks[k].user_id] # None)
                 => tasks[k].sendTo = PHONE_ID_CACHE[tasks[k].user_id]
           /\ Done(tasks[k]) => tasks[k].marked /\ BatchProcessed(k)

\* The reasoning call answered an error, and the cycle has ended with the fallback
\* stored, given to the delivery call and the entries marked.
C7_Witness ==
    \E k \in TaskIds :
        /\ tasks[k].chat = "failed"
        /\ env.OPENAI_API_KEY /\ env.WABA_TOKEN
        /\ tasks[k].result = "returned"
        /\ tasks[k].sendTo # None /\ tasks[k].sendText = FALLBACK
        /\ tasks[k].marked

-----------------------------------------------------------------------------
(* Properties of the two tables under the running program, checked under Spec *)

\* The content and timestamp of the user's turns of role user, in stored order
UserTurns(user_id) ==
    LET Test(row) == row.user_id = user_id /\ row.role = "user"
        rows == SelectSeq(chat_history, Test)
    IN  [i \in 1..Len(rows) |-> <<rows[i].content, rows[i].ts>>]

\* The content and timestamp of the user's pending entries, in stored order
PendingOf(user_id) ==
    LET rows == OfUser(pending_msgs, user_id)
    IN  [i \in 1..Len(rows) |-> <<rows[i].content, rows[i].ts>>]

\* C11: in every reachable state the pending entries of each user correspond one
\* to one, with equal content and timestamp, to the user's history turns of role
\* user: enqueue_pending adds both in one step and nothing else adds either.
C11_PendingMirrorsUserTurns ==
    \A u \in Users : UserTurns(u) = PendingOf(u)

\* A user has a processed entry, the reply to it, and a later unprocessed entry.
C11_Witness ==
    \E u \in Users :
        /\ Len(PendingOf(u)) >= 2
        /\ RepliesTo(u) >= 1
        /\ \E i, j \in 1..Len(pending_msgs) :
              /\ i < j
              /\ pending_msgs[i].user_id = u /\ pending_msgs[i].processed = 1
              /\ pending_msgs[j].user_id = u /\ pending_msgs[j].processed = 0

\* Entry i was enqueued for the user of task k after k's fetch_unprocessed and
\* before k ended: it is the message whose schedule_debounce found k suspended in
\* the reasoning call or in the delivery call.
LateFor(i, k) ==
    /\ i \in TasksOf(tasks[k].user_id)
    /\ k < i
    /\ \A j \in TasksOf(tasks[k].user_id) : ~(k < j /\ j < i)
    /\ tasks[k].fetched /\ tasks[k].pending # <<>>
    /\ tasks[k].cancelledIn \in {"chat", "send"}

\* No cycle has called mark_processed after an entry was enqueued behind its fetch
NoLateEntryMarked ==
    \A i, k \in TaskIds : LateFor(i, k) => ~tasks[k].marked

\* C13 as stated: the race of the unscoped mark_processed is reachable: a cycle
\* behind whose fetch an entry was enqueued still reaches its mark_processed, and
\* so marks that entry, which its request did not hold.
C13_LateEntryMarkedByRunningCycle ==
    \A i, k \in TaskIds :
        (LateFor(i, k) /\ Done(tasks[k])) =>
            tasks[k].marked /\ pending_msgs[i].processed = 1

\* DEBOUNCE_TASKS keeps every key it was given: it records the user's last task,
\* done or not.
RecordsLastTask ==
    \A u \in Users : TasksOf(u) # {} => DEBOUNCE_TASKS[u] = LastTaskOf(u)

\* C14 as stated: once a user's most recent debounce task has finished (fired to
\* the end or cancelled), and until a new message of the user arrives, the finally
\* block of debounce_fire has left DEBOUNCE_TASKS without an entry for the user.
C14_EntryRemovedOnCompletion ==
    \A u \in Users :
        (TasksOf(u) # {} /\ Done(tasks[LastTaskOf(u)])) => DEBOUNCE_TASKS[u] = 0

\* The reply of task k is stored as an assistant turn of its user
ReplyPersisted(k) ==
    /\ tasks[k].reply # ""
    /\ \E i \in 1..Len(chat_history) :
          /\ chat_history[i].user_id = tasks[k].user_id
          /\ chat_history[i].role = "assistant"
          /\ chat_history[i].content = tasks[k].reply

\* C15: in every cycle that fetched entries and is neither cancelled nor ended by
\* a storage error, the reply is stored before any delivery attempt, and
\* mark_processed runs after the delivery step whatever became of it: with no
\* route cached the delivery is skipped, a failed delivery is swallowed, and in
\* both cases the cycle ends with the reply stored and the entries processed.
C15_PersistBeforeDeliveryMarkAfter ==
    \A k \in TaskIds :
        ( /\ tasks[k].fetched /\ tasks[k].pending # <<>>
          /\ ~tasks[k].must_cancel
          /\ tasks[k].result \notin {"cancelled", "error"} )
        => /\ (tasks[k].st = "send" \/ tasks[k].sendTo # None
                  \/ tasks[k].delivered # "none") => ReplyPersisted(k)
           /\ tasks[k].st = "send" =>
                  ~tasks[k].marked /\ tasks[k].sendTo # None
                  /\ tasks[k].sendText = tasks[k].reply
           /\ tasks[k].marked => ReplyPersisted(k) /\ Done(tasks[k])
           /\ tasks[k].sendTo = None => tasks[k].delivered = "none"
           /\ Done(tasks[k]) =>
                  ReplyPersisted(k) /\ tasks[k].marked /\ BatchProcessed(k)

\* One cycle found no route and skipped the delivery, another's delivery failed,
\* and both ended with the reply stored and the entries processed.
C15_Witness ==
    \E j, k \in TaskIds :
        /\ tasks[j].result = "returned" /\ tasks[j].pending # <<>>
        /\ tasks[j].sendTo = None /\ tasks[j].marked /\ ReplyPersisted(j)
        /\ tasks[k].result = "returned" /\ tasks[k].pending # <<>>
        /\ tasks[k].delivered = "failed" /\ tasks[k].marked /\ ReplyPersisted(k)
        /\ BatchProcessed(j) /\ BatchProcessed(k)

\* Under the webhook of one process every timer that fires finds an entry: the
\* message that armed it is still unprocessed.
EveryFetchFindsEntries ==
    \A k \in TaskIds : tasks[k].fetched => tasks[k].pending # <<>>

\* All that the program holds for one user: the user's history turns, pending
\* entries with their flags, tasks, DEBOUNCE_TASKS entry and PHONE_ID_CACHE entry
UserState(user_id) ==
    [chat_history   |-> OfUser(chat_history, user_id),
     pending_msgs   |-> OfUser(pending_msgs, user_id),
     tasks          |-> OfUser(tasks, user_id),
     DEBOUNCE_TASKS |-> DEBOUNCE_TASKS[user_id],
     PHONE_ID_CACHE |-> PHONE_ID_CACHE[user_id]]

\* C17: users are isolated: every step (a message accepted with its enqueue,
\* cancellation and timer, or a step of a cycle, mark_processed included) is taken
\* for one user and leaves all that the program holds for every other user
\* unchanged, whatever the interleaving of the users' cycles.
C17_UsersIsolated ==
    [][ \E a \in Users : \A b \in Users \ {a} : UserState(b)' = UserState(b) ]_vars

\* While the cycle of one user was in flight, the cycle of another user fetched
\* and marked its own entries, and the first user's entries are still unprocessed.
C17_Witness ==
    \E j, k \in TaskIds :
        /\ tasks[j].user_id # tasks[k].user_id
        /\ InFlight(tasks[j]) /\ ~tasks[j].must_cancel
        /\ tasks[k].marked
        /\ tasks[k].fetchedAt >= tasks[j].fetchedAt
        /\ pending_msgs[j].processed = 0
        /\ pending_msgs[k].processed = 1
        /\ PHONE_ID_CACHE[tasks[j].user_id] # PHONE_ID_CACHE[tasks[k].user_id]

IsPrefix(s, t) == Len(s) <= Len(t) /\ s = SubSeq(t, 1, Len(s))

\* C18: the history of each user is append-only: across every step the user's
\* history before the step is a prefix of the history after it, in stored order
\* and in the order get_recent_history reads it (ORDER BY ts); and user turns
\* stand in the order in which their messages were enqueued: a step that enqueues
\* an entry appends its turn at the end, and timestamps never decrease.
C18_HistoryAppendOnly ==
    [][ /\ IsPrefix(chat_history, chat_history')
        /\ \A u \in Users :
              /\ IsPrefix(OfUser(chat_history, u), OfUser(chat_history', u))
              /\ IsPrefix(OrderByTs(OfUser(chat_history, u)),
                          OrderByTs(OfUser(chat_history', u)))
              /\ \A i, j \in 1..Len(UserTurns(u)') :
                    i < j => UserTurns(u)'[i][2] <= UserTurns(u)'[j][2]
        /\ Len(pending_msgs') > Len(pending_msgs) =>
              LET row == pending_msgs'[Len(pending_msgs')]
              IN  chat_history' =
                      Append(chat_history,
                             [user_id |-> row.user_id, role |-> "user",
                              content |-> row.content, ts |-> row.ts])
      ]_vars

\* A user's history holds a message, the reply to it, and a second message
\* enqueued in the second in which the reply was stored.
C18_Witness ==
    \E u \in Users :
        LET h == OfUser(chat_history, u)
        IN  /\ Len(h) >= 3
            /\ h[1].role = "user" /\ h[2].role = "assistant" /\ h[3].role = "user"
            /\ h[2].ts = h[3].ts
            /\ h[1].ts < h[2].ts

\* Entry i was in the batch task k fetched
InBatch(i, k) ==
    /\ i <= k
    /\ pending_msgs[i].user_id = tasks[k].user_id
    /\ \E n \in 1..Len(tasks[k].pending) :
          tasks[k].pending[n] = <<pending_msgs[i].content, pending_msgs[i].ts>>

\* The cycles that held entry i in their request and stored a reply
AnsweredBy(i) == {k \in TaskIds : InBatch(i, k) /\ ReplyPersisted(k)}

\* C19 as stated: no pending entry is answered twice: at most one cycle that has
\* the entry in its request stores an assistant reply, however new messages
\* interleave with the cycle's reasoning and delivery calls.
C19_NoEntryAnsweredTwice ==
    \A i \in 1..Len(pending_msgs) : Cardinality(AnsweredBy(i)) <= 1

-----------------------------------------------------------------------------
(* Properties of a cycle run against any store, checked under FireSpec *)

\* C16: when a user's timer expires and fetch_unprocessed returns no entry, the
\* cycle ends there with no effect on stored state: no request is built and no
\* reasoning call made, no history turn appended, no delivery, no flag changed.
C16_EmptyFetchNoEffect ==
    [][ \A k \in TaskIds :
          ( /\ tasks[k].st = "sleep" /\ tasks'[k].st # "sleep"
            /\ ~tasks[k].must_cancel
            /\ fetch_unprocessed(Db(World), tasks[k].user_id) = <<>> )
          => /\ chat_history' = chat_history
             /\ pending_msgs' = pending_msgs
             /\ PHONE_ID_CACHE' = PHONE_ID_CACHE
             /\ tasks'[k].st = "done" /\ tasks'[k].result = "returned"
             /\ tasks'[k].messages = <<>> /\ tasks'[k].chat = "none"
             /\ tasks'[k].reply = "" /\ tasks'[k].sendTo = None
             /\ tasks'[k].delivered = "none" /\ ~tasks'[k].marked
      ]_vars

\* A timer fired for a user whose entries were all processed already, next to an
\* unprocessed entry of another user, and ended at the fetch.
C16_Witness ==
    \E k \in TaskIds :
        /\ tasks[k].fetched /\ tasks[k].pending = <<>> /\ Done(tasks[k])
        /\ \E i \in 1..Len(pending_msgs) :
              pending_msgs[i].user_id = tasks[k].user_id /\ pending_msgs[i].processed = 1
        /\ \E i \in 1..Len(pending_msgs) :
              pending_msgs[i].user_id # tasks[k].user_id /\ pending_msgs[i].processed = 0
        /\ PHONE_ID_CACHE[tasks[k].user_id] # None

-----------------------------------------------------------------------------
(* Properties of the media branches of the webhook, checked under MediaSpec *)

MediaTypes == {"audio", "image"}

\* The lookup, the download and the transcription or description all succeeded
MediaSucceeded(r) == r.media_url # None /\ r.data # None /\ r.text # ""

\* C12: every audio or image message with a sender and a media id, whatever the
\* outcome of lookup, download and transcription or description, enqueues exactly
\* one pending entry for the sender: the wrapped text on success, the fixed
\* placeholder otherwise; and the sender's timer is then armed as for a text
\* message: the task on record is cancelled when it is not done, a new task is
\* created and recorded, and the route is cached when the message carries one.
C12_MediaAlwaysEnqueuesOne ==
    [][ \A u \in MediaUsers, ty \in MediaTypes, r \in MediaResults, p \in PhoneIds \cup {None} :
          WebhookMedia(u, ty, r, p, MaxMedia) =>
            LET n == Len(pending_msgs)
                m == Len(tasks)
                old == DEBOUNCE_TASKS[u]
                text == Accept(World, u, "hola", p, now)
            IN  /\ Len(pending_msgs') = n + 1
                /\ SubSeq(pending_msgs', 1, n) = pending_msgs
                /\ pending_msgs'[n + 1].user_id = u
                /\ pending_msgs'[n + 1].processed = 0
                /\ pending_msgs'[n + 1].ts = now
                /\ pending_msgs'[n + 1].content =
                       IF MediaSucceeded(r)
                       THEN (IF ty = "audio" THEN "[Audio transcrito]: "
                                             ELSE "[Imagen analizada]: ") \o r.text
                       ELSE IF ty = "audio"
                            THEN "[Audio recibido]: (no se pudo transcribir)"
                            ELSE "[Imagen recibida]: (no se pudo analizar)"
                /\ Len(tasks') = m + 1
                /\ tasks'[m + 1] = NewTask(u)
                /\ DEBOUNCE_TASKS' = [DEBOUNCE_TASKS EXCEPT ![u] = m + 1]
                /\ \A k \in 1..m :
                      IF k = old /\ ~Done(tasks[k])
                      THEN tasks'[k].must_cancel /\ tasks'[k].st = tasks[k].st
                      ELSE tasks'[k] = tasks[k]
                /\ PHONE_ID_CACHE' =
                       IF p # None THEN [PHONE_ID_CACHE EXCEPT ![u] = p] ELSE PHONE_ID_CACHE
                /\ tasks' = text.tasks
                /\ DEBOUNCE_TASKS' = text.DEBOUNCE_TASKS
                /\ PHONE_ID_CACHE' = text.PHONE_ID_CACHE
      ]_vars

\* An image whose media could not be resolved left the placeholder as a pending
\* entry, and the timer it armed has fired and answered it.
C12_Witness ==
    \E k \in 1..Len(tasks) :
        /\ tasks[k].pending = <<<<"[Imagen recibida]: (no se pudo analizar)",
                                 pending_msgs[k].ts>>>>
        /\ pending_msgs[k].content = "[Imagen recibida]: (no se pudo analizar)"
        /\ tasks[k].result = "returned"
        /\ tasks[k].marked

-----------------------------------------------------------------------------
(* Progress of the program, checked under LiveSpec *)

\* C20: no enqueued message is stranded: with finitely many messages, external
\* calls that return, a store that does not fail and fair scheduling, every
\* pending entry is eventually marked processed (again and again no entry is left
\* unprocessed, and a processed entry stays processed); and an entry that is
\* marked was in the request of the cycle that marked it, which had stored its
\* reply.
C20_NoMessageStranded ==
    /\ [](\A i \in 1..Len(pending_msgs) :
            pending_msgs[i].processed = 1 =>
                \E k \in TaskIds :
                    InBatch(i, k) /\ ReplyPersisted(k) /\ tasks[k].marked)
    /\ [][\A i \in 1..Len(pending_msgs) :
            pending_msgs[i].processed = 1 => pending_msgs'[i].processed = 1]_vars
    /\ []<>(\A i \in 1..Len(pending_msgs) : pending_msgs[i].processed = 1)

\* An entry whose cycle was cancelled in flight was fetched again and marked by
\* the cycle of the user's next message, and no entry is left unprocessed.
C20_Witness ==
    \E j, k \in TaskIds :
        /\ j < k
        /\ tasks[j].result = "cancelled" /\ tasks[j].cancelledIn \in {"chat", "send"}
        /\ InBatch(j, j) /\ InBatch(j, k) /\ InBatch(k, k)
        /\ tasks[k].marked /\ ReplyPersisted(k)
        /\ \A i \in 1..Len(pending_msgs) : pending_msgs[i].processed = 1

====
